---- MODULE Spec2Model ----
(***************************************************************************)
(* A model of the git-theta merge driver (git_theta/scripts/              *)
(* git_theta_merge.py) and of the helpers it uses from git_theta/utils.py. *)
(*                                                                         *)
(* Strings the user types and the keys of the short-cut dictionary are     *)
(* sequences of one-character strings.  A parameter entry (ParamMetadata)  *)
(* is represented by its hash; None is the string "None".                  *)
(***************************************************************************)
EXTENDS Integers, Sequences, FiniteSets, TLC

\* Largest number of parameter names over the three manifests.
MaxParams == 2

\* ------------------------------------------------------------------------
\* Values
\* ------------------------------------------------------------------------

None == "None"

NoResult == "NoResult"

\* The hashes an entry of a manifest can have, in order of first use.
EntryHashes == <<"h1", "h2", "h3">>

Entries == {EntryHashes[i] : i \in 1..Len(EntryHashes)}

\* The record a merging action computes anew (an average of two tensors).
MergedEntry == "hMerged"

EntryOrNone == Entries \cup {None}

\* Parameter names, numbered in their sort order.
Params == 1..MaxParams

DiffState ==
    {"EQUAL", "CHANGED_A", "CHANGED_B", "CHANGED_BOTH", "DELETED_A",
     "DELETED_B", "DELETED_BOTH", "ADDED_A", "ADDED_B", "ADDED_BOTH"}

\* ------------------------------------------------------------------------
\* infer_state
\* ------------------------------------------------------------------------

\* infer_state without the test of the ancestor in its last case.
infer_state_no_ancestor_test(ancestor_p, current_p, other_p) ==
    IF ancestor_p = current_p /\ current_p = other_p THEN "EQUAL"
    ELSE IF ancestor_p = other_p /\ current_p # ancestor_p THEN
        IF ancestor_p = None THEN "ADDED_A"
        ELSE IF current_p = None THEN "DELETED_A"
        ELSE "CHANGED_A"
    ELSE IF ancestor_p = current_p /\ current_p # other_p THEN
        IF ancestor_p = None THEN "ADDED_B"
        ELSE IF current_p = None THEN "DELETED_B"
        ELSE "CHANGED_B"
    ELSE "CHANGED_BOTH"

infer_state(ancestor_p, current_p, other_p) ==
    IF ancestor_p = current_p /\ current_p = other_p THEN "EQUAL"
    ELSE IF ancestor_p = other_p /\ current_p # ancestor_p THEN
        IF ancestor_p = None THEN "ADDED_A"
        ELSE IF current_p = None THEN "DELETED_A"
        ELSE "CHANGED_A"
    ELSE IF ancestor_p = current_p /\ current_p # other_p THEN
        IF ancestor_p = None THEN "ADDED_B"
        ELSE IF current_p = None THEN "DELETED_B"
        ELSE "CHANGED_B"
    ELSE IF ancestor_p = None THEN "DELETED_B"
    ELSE "CHANGED_BOTH"

\* ------------------------------------------------------------------------
\* Text
\* ------------------------------------------------------------------------

\* str.strip(): drop the white space at both ends.
RECURSIVE LStrip(_)
LStrip(s) == IF s # <<>> /\ Head(s) = " " THEN LStrip(Tail(s)) ELSE s

RECURSIVE RStrip(_)
RStrip(s) ==
    IF s # <<>> /\ s[Len(s)] = " " THEN RStrip(SubSeq(s, 1, Len(s) - 1)) ELSE s

Strip(s) == RStrip(LStrip(s))

\* The keys make_short_cuts takes from its number series are Python ints:
\* the int n is no string, so it equals no text the user can type.
IntTokens == <<"#1", "#2", "#3", "#4", "#5", "#6", "#7", "#8">>

IntKey(n) == <<IntTokens[n]>>

IsIntKey(kb) == \E n \in 1..Len(IntTokens) : kb = IntKey(n)

\* ------------------------------------------------------------------------
\* Trie: a node is named by the path of characters that leads to it.
\* ------------------------------------------------------------------------

\* Trie(): the root alone.
EmptyTrie == [nodes |-> {<<>>}, words |-> {}]

\* Trie.insert, one character per recursion: at the node `at`, with the
\* characters `word` still to add.
RECURSIVE TrieInsertAt(_, _, _)
TrieInsertAt(trie, at, word) ==
    IF word = <<>> THEN [trie EXCEPT !.words = @ \cup {at}]
    ELSE LET node == Append(at, Head(word))
         IN  TrieInsertAt([trie EXCEPT !.nodes = @ \cup {node}], node, Tail(word))

TrieInsert(trie, word) == TrieInsertAt(trie, <<>>, word)

\* node.next of the node at path `at`: the characters it continues with.
TrieNext(trie, at) ==
    {n[Len(n)] : n \in {m \in trie.nodes : Len(m) = Len(at) + 1
                                           /\ SubSeq(m, 1, Len(at)) = at}}

\* Trie._query: the node reached by `word` from `at`, or a KeyError.
RECURSIVE TrieQueryAt(_, _, _)
TrieQueryAt(trie, at, word) ==
    IF word = <<>> THEN [found |-> TRUE, node |-> at]
    ELSE IF Head(word) \in TrieNext(trie, at)
         THEN TrieQueryAt(trie, Append(at, Head(word)), Tail(word))
         ELSE [found |-> FALSE, node |-> at]

\* A prefix test that asks whether the node ends a word.
TriePrefix_is_word(trie, word) ==
    LET q == TrieQueryAt(trie, <<>>, word)
    IN  q.found /\ q.node \in trie.words

\* Trie.prefix
TriePrefix(trie, word) ==
    LET q == TrieQueryAt(trie, <<>>, word)
    IN  q.found /\ TrieNext(trie, q.node) # {}

\* Trie.__contains__
TrieContains(trie, word) ==
    LET q == TrieQueryAt(trie, <<>>, word)
    IN  q.found /\ q.node \in trie.words

\* Trie.from_iterable over a set of words (insertion order does not matter
\* to the resulting set of nodes).
RECURSIVE TrieFromIterable(_)
TrieFromIterable(words) ==
    IF words = {} THEN EmptyTrie
    ELSE LET w == CHOOSE x \in words : TRUE
         IN  TrieInsert(TrieFromIterable(words \ {w}), w)

\* ------------------------------------------------------------------------
\* CommandValidator.validate
\* ------------------------------------------------------------------------

Accepted == "accepted"

SilentError == "ValidationError()"

NotAllowedError == "ValidationError(This input is not an allowed action.)"

validate(avail, prefixes, text) ==
    IF text # <<>> /\ text \notin avail THEN
        IF TriePrefix(prefixes, text) THEN SilentError ELSE NotAllowedError
    ELSE Accepted

\* ------------------------------------------------------------------------
\* Merge plug-ins (git_theta.merges)
\* ------------------------------------------------------------------------

\* The names plug-ins are registered under, in alphabetical order.
NameOrder ==
    <<"average", "context", "quick", "take_ancestor", "take_ours",
      "take_theirs", "weighted">>

AddedStates == {"ADDED_A", "ADDED_B", "ADDED_BOTH"}

OneSidedStates == {"ADDED_A", "ADDED_B", "DELETED_A", "DELETED_B", "DELETED_BOTH"}

\* A handler class: NAME, SHORT_CUT, INACTIVE_STATES and the number of
\* merge_arguments() it asks for.
Handler(name, short_cut, inactive, nargs) ==
    [NAME |-> name, SHORT_CUT |-> short_cut, INACTIVE_STATES |-> inactive,
     ARGS |-> nargs]

\* The required built-in actions.
BuiltinHandlers ==
    {Handler("take_ours", <<"t", "u">>, {}, 0),
     Handler("take_theirs", <<"t", "t">>, {}, 0),
     Handler("take_ancestor", <<"t", "o">>, AddedStates, 0),
     Handler("average", <<"a", "v", "g">>, OneSidedStates, 0),
     Handler("context", <<"c">>, {}, 0)}

\* A plug-in that asks for one argument, and one that requests the reserved
\* short-cut.
WeightedHandler == Handler("weighted", <<"w">>, OneSidedStates, 1)

QuickHandler == Handler("quick", <<"q">>, DiffState \ {"CHANGED_BOTH"}, 0)

AsRegistry(hs) == [n \in {h.NAME : h \in hs} |-> CHOOSE h \in hs : h.NAME = n]

\* merges.all_merge_handlers(): the plug-ins that are installed.
Registries ==
    {AsRegistry(BuiltinHandlers \cup {WeightedHandler}),
     AsRegistry(BuiltinHandlers \cup {WeightedHandler, QuickHandler})}

\* The body of an action: the values its call can return, or "raise".
\* A record, None (the parameter is deleted) or NoResult (ask again).
Raise == "raise"

ActionBody(name, current_param, other_param, ancestor_param) ==
    CASE name = "take_ours" -> {current_param}
      [] name = "take_theirs" -> {other_param}
      [] name = "take_ancestor" -> {ancestor_param}
      [] name = "average" -> {MergedEntry, Raise}
      [] name = "weighted" -> {MergedEntry, Raise}
      [] name = "context" -> {NoResult}
      [] OTHER -> {MergedEntry}

\* ------------------------------------------------------------------------
\* make_short_cuts, filter_actions
\* ------------------------------------------------------------------------

Reserved == {<<"q">>}

\* sorted(handlers.items()): the registered names in alphabetical order.
RECURSIVE SortedFrom(_, _)
SortedFrom(names, i) ==
    IF i > Len(NameOrder) THEN <<>>
    ELSE IF NameOrder[i] \in names
         THEN <<NameOrder[i]>> \o SortedFrom(names, i + 1)
         ELSE SortedFrom(names, i + 1)

SortedNames(handlers) == SortedFrom(DOMAIN handlers, 1)

\* The loop of make_short_cuts over the names still to serve; short_cuts
\* maps a key to the NAME of its handler, action is the next number.
RECURSIVE ShortCutsLoop(_, _, _, _, _)
ShortCutsLoop(handlers, reserved, todo, short_cuts, action) ==
    IF todo = <<>> THEN short_cuts
    ELSE LET handler == handlers[Head(todo)]
         IN  IF handler.SHORT_CUT \notin reserved
                /\ handler.SHORT_CUT \notin DOMAIN short_cuts
             THEN ShortCutsLoop(handlers, reserved, Tail(todo),
                                (handler.SHORT_CUT :> handler.NAME) @@ short_cuts,
                                action)
             ELSE ShortCutsLoop(handlers, reserved, Tail(todo),
                                (IntKey(action) :> handler.NAME) @@ short_cuts,
                                action + 1)

\* make_short_cuts with nothing reserved.
make_short_cuts_nothing_reserved(handlers, reserved) ==
    ShortCutsLoop(handlers, {}, SortedNames(handlers), <<>>, 1)

make_short_cuts(handlers, reserved) ==
    ShortCutsLoop(handlers, reserved, SortedNames(handlers), <<>>, 1)

\* A filter that keeps every action.
filter_actions_keep_all(state_, handlers_, actions) == actions

filter_actions(state_, handlers_, actions) ==
    [kb \in {k \in DOMAIN actions :
                state_ \notin handlers_[actions[k]].INACTIVE_STATES}
        |-> actions[kb]]

\* ------------------------------------------------------------------------
\* Manifests
\* ------------------------------------------------------------------------

\* dict.get
Get(d, k) == IF k \in DOMAIN d THEN d[k] ELSE None

\* d[k] = v
Put(d, k, v) == (k :> v) @@ d

\* sorted(list(set(...))) of a set of parameter names.
RECURSIVE SortedParams(_)
SortedParams(ps) ==
    IF ps = {} THEN <<>>
    ELSE LET least == CHOOSE p \in ps : \A r \in ps : p <= r
         IN  <<least>> \o SortedParams(ps \ {least})

\* ------------------------------------------------------------------------
\* Environment
\* ------------------------------------------------------------------------

\* What os.environ.get can give for a variable: nothing (the empty set) or
\* one string.
EnvValues == {{}, {<<>>}, {<<"1">>}, {<<"0">>}}

\* An EnvVar that does not look at the environment.
EnvVarGet_default_only(value, default) == default

\* EnvVar.__get__ for a default of type bool.
EnvVarGet(value, default) ==
    IF value # {} /\ value # {<<>>} THEN (\A v \in value : v # <<>>) ELSE default

\* EnvVarConstants.MANUAL_MERGE
ManualMergeDefault == FALSE

\* ------------------------------------------------------------------------
\* The merge driver
\* ------------------------------------------------------------------------

VARIABLES
    fs,                 \* the manifests at the paths ancestor, current, other
    side,               \* the side files written by a manual merge
    pc,                 \* where the process is
    exit_status,        \* -1 while running, else the status of the process
    error,              \* what ended the process early, or "none"
    ancestor, current, other,   \* the loaded, flattened manifests
    handlers,           \* the loaded plug-ins
    short_cuts,         \* key -> NAME of the handler
    all_params,         \* the sorted parameter names
    idx,                \* how many parameters the for loop has finished
    state,              \* infer_state of the parameter at hand
    available_actions,  \* key -> NAME of the handler, or "quit"
    action,             \* the accepted, stripped input
    merged_parameter,   \* what the action returned
    merged_model,       \* parameter name -> merged entry
    prompted,           \* the parameters a prompt was issued for
    returned,           \* parameter -> what the action that resolved it returned
    writes,             \* the number of writes to the current path
    current0,           \* the manifest at the current path at the start
    environ,            \* the value of GIT_THETA_MANUAL_MERGE, if it is set
    fn_args,            \* arguments of a function applied on its own
    fn_result           \* and its result

vars ==
    <<fs, side, pc, exit_status, error, ancestor, current, other, handlers,
      short_cuts, all_params, idx, state, available_actions, action,
      merged_parameter, merged_model, prompted, returned, writes, current0,
      environ, fn_args, fn_result>>

procVars ==
    <<ancestor, current, other, handlers, short_cuts, all_params, idx, state,
      available_actions, action, merged_parameter, merged_model, prompted,
      returned>>

fnVars == <<fn_args, fn_result>>

Unset == "unset"

\* The position of a hash in EntryHashes; None comes before all.
HashRank(h) == IF h = None THEN 0 ELSE CHOOSE i \in 1..Len(EntryHashes) : EntryHashes[i] = h

Max(a, b) == IF a >= b THEN a ELSE b

\* Hashes are named in order of first use: a triple stands for all the
\* triples with the same equalities and the same absences.
IsCanonical(t) ==
    /\ HashRank(t[1]) <= 1
    /\ HashRank(t[2]) <= HashRank(t[1]) + 1
    /\ HashRank(t[3]) <= Max(HashRank(t[1]), HashRank(t[2])) + 1

Triples == {t \in [1..3 -> EntryOrNone] : IsCanonical(t)}

\* The manifest that lists, for each parameter, the j-th value of its triple.
ManifestOf(t, j) == [p \in {q \in Params : t[q][j] # None} |-> t[p][j]]

NoManifest == <<>>

ProcInit ==
    /\ ancestor = NoManifest /\ current = NoManifest /\ other = NoManifest
    /\ handlers = <<>> /\ short_cuts = <<>>
    /\ all_params = <<>> /\ idx = 0
    /\ state = Unset
    /\ available_actions = <<>>
    /\ action = <<>>
    /\ merged_parameter = NoResult
    /\ merged_model = <<>>
    /\ prompted = {}
    /\ returned = <<>>

Init ==
    /\ \E t \in [Params -> Triples] :
          fs = [ancestor |-> ManifestOf(t, 1), current |-> ManifestOf(t, 2),
                other |-> ManifestOf(t, 3)]
    /\ current0 = fs.current
    /\ environ \in EnvValues
    /\ side = {}
    /\ pc = "main"
    /\ exit_status = -1
    /\ error = "none"
    /\ writes = 0
    /\ ProcInit
    /\ fn_args = <<>> /\ fn_result = Unset

\* The process ends: sys.exit(status), or an exception nobody catches.
Exit(status, why) ==
    /\ pc' = "exited"
    /\ exit_status' = status
    /\ error' = why

\* main(): manual merge or interactive merge, as the environment says.
Main ==
    /\ pc = "main"
    /\ pc' = IF EnvVarGet(environ, ManualMergeDefault) THEN "manual_merge" ELSE "merge"
    /\ UNCHANGED <<fs, side, exit_status, error, writes, current0, environ, procVars, fnVars>>

\* The checkpoint git-theta-filter smudge makes of a manifest.
Smudge(manifest) == [checkpoint_of |-> manifest]

\* manual_merge(): write the three checkpoints next to the model and exit 1.
ManualMerge ==
    /\ pc = "manual_merge"
    /\ side' = {[name |-> "ours.ckpt", content |-> Smudge(fs.current)],
                [name |-> "theirs.ckpt", content |-> Smudge(fs.other)],
                [name |-> "ancestor.ckpt", content |-> Smudge(fs.ancestor)]}
    /\ Exit(1, "ManualMerge")
    /\ UNCHANGED <<fs, writes, current0, environ, procVars, fnVars>>

\* merge(), up to its for loop: load the manifests and the plug-ins.
MergeLoad ==
    /\ pc = "merge"
    /\ ancestor' = fs.ancestor
    /\ current' = fs.current
    /\ other' = fs.other
    /\ all_params' = SortedParams(DOMAIN fs.ancestor \cup DOMAIN fs.current
                                  \cup DOMAIN fs.other)
    /\ \E registry \in Registries :
          /\ handlers' = registry
          /\ short_cuts' = make_short_cuts(registry, Reserved)
    /\ merged_model' = <<>>
    /\ pc' = "for"
    /\ UNCHANGED <<fs, side, exit_status, error, writes, current0, environ, idx, state,
                   available_actions, action, merged_parameter, prompted,
                   returned, fnVars>>

\* The texts the user types at the action prompt.
Inputs ==
    {<<>>, <<"q">>, <<"q", " ">>, <<"t">>, <<"t", "u">>, <<"t", "t">>,
     <<"t", "o">>, <<"t", "u", "x">>, <<"a">>, <<"a", "v">>, <<"a", "v", "g">>,
     <<"c">>, <<"w">>, <<"x">>, <<"1">>}

\* The parameter the for loop is at.
param_name == all_params[idx + 1]

ancestor_param == Get(ancestor, param_name)

current_param == Get(current, param_name)

other_param == Get(other, param_name)

\* Trie.from_iterable(available_actions)
available_prefixes == TrieFromIterable(DOMAIN available_actions)

\* An unchanged parameter that is passed over.
KeepEqual_dropped(model, name, entry) == model

\* merged_model[param_name] = ancestor_param, for an unchanged parameter.
KeepEqual(model, name, entry) == Put(model, name, entry)

\* An end of a pass that stores whatever came back.
StoreResult_stores_none(model, name, result) == Put(model, name, result)

\* The end of a pass: None deletes the parameter, a record is stored.
StoreResult(model, name, result) ==
    IF result = None THEN model ELSE Put(model, name, result)

\* A loop that stops one parameter early.
LoopDone_one_early == idx >= Len(all_params) - 1

\* The for loop has no parameter left.
LoopDone == idx = Len(all_params)

\* A quit that reports success.
Quit_status_zero == Exit(0, "UserAbort")

\* The quit action: sys.exit(1).
Quit == Exit(1, "UserAbort")

\* One pass of the for loop up to the prompt: classify the parameter,
\* resolve it when nobody has to be asked, else build the menu.
ForNext ==
    /\ pc = "for"
    /\ ~LoopDone
    /\ LET st == infer_state(ancestor_param, current_param, other_param)
           avail == ((<<"q">> :> "quit") @@ filter_actions(st, handlers, short_cuts))
       IN  /\ state' = st
           /\ IF st = "EQUAL" THEN
                  /\ merged_model' = KeepEqual(merged_model, param_name, ancestor_param)
                  /\ idx' = idx + 1
                  /\ UNCHANGED <<pc, exit_status, error, available_actions,
                                 prompted, merged_parameter>>
              ELSE IF st = "DELETED_BOTH" THEN
                  /\ idx' = idx + 1
                  /\ UNCHANGED <<pc, exit_status, error, available_actions,
                                 prompted, merged_parameter, merged_model>>
              ELSE IF \E kb \in DOMAIN avail : IsIntKey(kb) THEN
                  \* Trie.insert and build_menu take the key for a string.
                  /\ available_actions' = avail
                  /\ Exit(1, "TypeError")
                  /\ UNCHANGED <<idx, prompted, merged_parameter, merged_model>>
              ELSE
                  /\ available_actions' = avail
                  /\ merged_parameter' = NoResult
                  /\ prompted' = prompted \cup {param_name}
                  /\ pc' = "prompt"
                  /\ UNCHANGED <<idx, exit_status, error, merged_model>>
    /\ UNCHANGED <<fs, side, writes, current0, environ, ancestor, current, other,
                   handlers, short_cuts, all_params, action, returned, fnVars>>

\* What the engine does with an accepted, stripped input: it exits on q,
\* else it looks the action up in the available actions.
LookUp(avail, act) ==
    IF act = <<"q">> THEN "exit"
    ELSE IF act \notin DOMAIN avail THEN "KeyError"
    ELSE avail[act]

\* session.prompt() and the look-up of its answer: the prompt returns a
\* text only once the validator accepts it.
Prompt ==
    /\ pc = "prompt"
    /\ \E typed \in Inputs :
          /\ validate(DOMAIN available_actions, available_prefixes, typed) = Accepted
          /\ action' = Strip(typed)
          /\ IF LookUp(available_actions, action') = "exit" THEN Quit
             ELSE IF LookUp(available_actions, action') = "KeyError"
                  THEN Exit(1, "KeyError")
             ELSE /\ pc' = IF handlers[LookUp(available_actions, action')].ARGS > 0
                           THEN "argument" ELSE "dispatch"
                  /\ UNCHANGED <<exit_status, error>>
    /\ UNCHANGED <<fs, side, writes, current0, environ, ancestor, current, other,
                   handlers, short_cuts, all_params, idx, state,
                   available_actions, merged_parameter, merged_model, prompted,
                   returned, fnVars>>

\* prompt() for a merge argument and merge_argument.type(argument_value).
Argument ==
    /\ pc = "argument"
    /\ \E coerces \in BOOLEAN :
          IF coerces THEN pc' = "dispatch" /\ UNCHANGED <<exit_status, error>>
          ELSE Exit(1, "ValueError")
    /\ UNCHANGED <<fs, side, writes, current0, environ, procVars, fnVars>>

\* A prompt loop that every return value ends.
AsksAgain_never(r) == FALSE

\* The test that keeps the prompt loop of a parameter going.
AsksAgain(r) == r = NoResult

\* available_actions[action]()(...) and the end of the pass.
Dispatch ==
    /\ pc = "dispatch"
    /\ LET name == available_actions[action]
       IN  /\ \E r \in ActionBody(name, current_param, other_param, ancestor_param) :
                 IF r = Raise THEN
                     /\ Exit(1, "ActionError")
                     /\ UNCHANGED <<merged_parameter, merged_model, idx, prompted,
                                    returned>>
                 ELSE
                     /\ merged_parameter' = r
                     /\ UNCHANGED <<exit_status, error>>
                     /\ IF AsksAgain(r) THEN
                            /\ pc' = "prompt"
                            /\ prompted' = prompted \cup {param_name}
                            /\ UNCHANGED <<merged_model, idx, returned>>
                        ELSE
                            /\ pc' = "for"
                            /\ merged_model' = StoreResult(merged_model, param_name, r)
                            /\ returned' = Put(returned, param_name, r)
                            /\ idx' = idx + 1
                            /\ UNCHANGED prompted
    /\ UNCHANGED <<fs, side, writes, current0, environ, ancestor, current, other,
                   handlers, short_cuts, all_params, state, available_actions,
                   action, fnVars>>

\* After the loop: write the merged manifest over the current path, return 0.
WriteMerged ==
    /\ pc = "for"
    /\ LoopDone
    /\ fs' = [fs EXCEPT !.current = merged_model]
    /\ writes' = writes + 1
    /\ Exit(0, "none")
    /\ UNCHANGED <<side, current0, environ, procVars, fnVars>>

Next ==
    \/ Main
    \/ ManualMerge
    \/ MergeLoad
    \/ ForNext
    \/ Prompt
    \/ Argument
    \/ Dispatch
    \/ WriteMerged

Spec == Init /\ [][Next]_vars

TypeOK ==
    /\ pc \in {"main", "manual_merge", "merge", "for", "prompt", "argument",
               "dispatch", "exited"}
    /\ exit_status \in {-1, 0, 1}
    /\ idx \in 0..Len(all_params)
    /\ state \in DiffState \cup {Unset}

\* ------------------------------------------------------------------------
\* infer_state and the validator, applied on their own
\* ------------------------------------------------------------------------

\* No merge is running.
Idle ==
    /\ fs = [ancestor |-> NoManifest, current |-> NoManifest, other |-> NoManifest]
    /\ current0 = NoManifest
    /\ environ = {}
    /\ side = {}
    /\ exit_status = -1
    /\ error = "none"
    /\ writes = 0
    /\ ProcInit

InitInfer ==
    /\ Idle
    /\ pc = "infer_state"
    /\ fn_args \in [1..3 -> EntryOrNone]
    /\ fn_result = [state |-> Unset, swapped |-> Unset]

\* infer_state(ancestor, current, other), and the call with current and
\* other exchanged.
InferCall ==
    /\ pc = "infer_state"
    /\ fn_result.state = Unset
    /\ fn_result' = [state |-> infer_state(fn_args[1], fn_args[2], fn_args[3]),
                     swapped |-> infer_state(fn_args[1], fn_args[3], fn_args[2])]
    /\ UNCHANGED <<fs, side, pc, exit_status, error, writes, current0, environ, procVars,
                   fn_args>>

NextInfer == InferCall

SpecInfer == InitInfer /\ [][NextInfer]_vars

\* The keys a set of available actions is made of: the short-cuts of the
\* plug-ins and a key that is the beginning of other keys.
KeyUniverse ==
    {h.SHORT_CUT : h \in BuiltinHandlers \cup {WeightedHandler}} \cup {<<"t">>}

InitValidate ==
    /\ Idle
    /\ pc = "validate"
    /\ \E keys \in SUBSET KeyUniverse, typed \in Inputs :
          fn_args = [avail |-> keys \cup {<<"q">>}, text |-> typed]
    /\ fn_result = Unset

\* CommandValidator(avail, Trie.from_iterable(avail)).validate(text)
ValidateCall ==
    /\ pc = "validate"
    /\ fn_result = Unset
    /\ fn_result' = validate(fn_args.avail, TrieFromIterable(fn_args.avail),
                             fn_args.text)
    /\ UNCHANGED <<fs, side, pc, exit_status, error, writes, current0, environ, procVars,
                   fn_args>>

NextValidate == ValidateCall

SpecValidate == InitValidate /\ [][NextValidate]_vars

\* ------------------------------------------------------------------------
\* Properties
\* ------------------------------------------------------------------------

\* The state table of the merge engine, one row per case; the rows exclude
\* each other, the last two take what is left.
TableState(a, c, o) ==
    CASE a = c /\ c = o -> "EQUAL"
      [] a = o /\ c # a /\ a = None -> "ADDED_A"
      [] a = o /\ c # a /\ a # None /\ c = None -> "DELETED_A"
      [] a = o /\ c # a /\ a # None /\ c # None -> "CHANGED_A"
      [] a = c /\ c # o /\ a = None -> "ADDED_B"
      [] a = c /\ c # o /\ a # None /\ c = None -> "DELETED_B"
      [] a = c /\ c # o /\ a # None /\ c # None -> "CHANGED_B"
      [] OTHER -> IF a = None THEN "DELETED_B" ELSE "CHANGED_BOTH"

\* C1: for every triple (ancestor, current, other) infer_state returns the
\* state of the table, and it returns EQUAL exactly when the three are equal.
C1_InferStateTable ==
    (pc = "infer_state" /\ fn_result.state # Unset) =>
        /\ fn_result.state = TableState(fn_args[1], fn_args[2], fn_args[3])
        /\ (fn_result.state = "EQUAL") <=>
               (fn_args[1] = fn_args[2] /\ fn_args[2] = fn_args[3])

\* C1 witness: a triple with three different entries has been classified as
\* changed on both sides.
C1_Witness ==
    /\ pc = "infer_state"
    /\ fn_args = <<"h1", "h2", "h3">>
    /\ fn_result.state = "CHANGED_BOTH"

\* Exchange the A-suffixed and the B-suffixed states.
SwapAB(st) ==
    CASE st = "ADDED_A" -> "ADDED_B"
      [] st = "ADDED_B" -> "ADDED_A"
      [] st = "DELETED_A" -> "DELETED_B"
      [] st = "DELETED_B" -> "DELETED_A"
      [] st = "CHANGED_A" -> "CHANGED_B"
      [] st = "CHANGED_B" -> "CHANGED_A"
      [] OTHER -> st

\* C2: swapping current and other swaps the A-suffixed and the B-suffixed
\* states: infer_state(a, o, c) is infer_state(a, c, o) with A and B exchanged.
C2_SwapSwapsSides ==
    (pc = "infer_state" /\ fn_result.state # Unset) =>
        fn_result.swapped = SwapAB(fn_result.state)

\* The parameter names of the three manifests the merge was started on.
AllNames == DOMAIN fs.ancestor \cup DOMAIN current0 \cup DOMAIN fs.other

\* The for loop is done with parameter p.
Resolved(p) == \E i \in 1..idx : all_params[i] = p

\* The merge has been through its load: the manifests are in memory.
Loaded == pc \in {"for", "prompt", "argument", "dispatch"} \/ (pc = "exited" /\ handlers # <<>>)

\* C3: a parameter present in the ancestor and absent from both current and
\* other is auto-resolved: it is never prompted for and never part of the
\* merged manifest.
C3_BothDeletedAutoResolved ==
    \A p \in Params :
        (p \in DOMAIN fs.ancestor /\ p \notin DOMAIN current0 /\ p \notin DOMAIN fs.other)
            => (p \notin prompted /\ p \notin DOMAIN merged_model)

\* C4: a parameter whose ancestor, current and other entries are all equal is
\* never prompted for, and the merged manifest holds it with the ancestor's
\* entry.
C4_EqualKeptWithoutPrompt ==
    \A p \in DOMAIN fs.ancestor :
        (Get(current0, p) = fs.ancestor[p] /\ Get(fs.other, p) = fs.ancestor[p])
            => /\ p \notin prompted
               /\ Resolved(p) =>
                      (p \in DOMAIN merged_model /\ merged_model[p] = fs.ancestor[p])
               /\ writes > 0 =>
                      (p \in DOMAIN fs.current /\ fs.current[p] = fs.ancestor[p])

\* C4 witness: a merge that prompted for one parameter has written a manifest
\* that keeps another, unchanged, parameter.
C4_Witness ==
    /\ writes = 1
    /\ prompted # {}
    /\ \E p \in DOMAIN fs.ancestor \ prompted :
          /\ Get(current0, p) = fs.ancestor[p]
          /\ Get(fs.other, p) = fs.ancestor[p]
          /\ p \in DOMAIN fs.current

\* C5: entering q at a prompt ends the process with status 1 and leaves the
\* file at the current path as it was before the merge.
C5_QuitLeavesCurrent ==
    /\ [](error = "UserAbort" =>
            (pc = "exited" /\ exit_status = 1 /\ writes = 0 /\ fs.current = current0))
    /\ [][(pc = "prompt" /\ action' = <<"q">>) =>
            (pc' = "exited" /\ exit_status' = 1 /\ error' = "UserAbort" /\ fs' = fs)]_vars

\* C5 witness: the user quit at the second prompt, after an action had
\* resolved a first parameter.
C5_Witness ==
    /\ error = "UserAbort"
    /\ returned # <<>>
    /\ merged_model # <<>>
    /\ merged_model # current0

\* C6: the manifest is written at most once and only after every parameter
\* name of the three manifests is resolved; a run that ends by quit or by an
\* error of an action leaves the file unchanged; a run that writes exits 0.
C6_WriteOnlyOnSuccess ==
    /\ writes <= 1
    /\ writes = 0 => fs.current = current0
    /\ writes = 1 =>
          /\ pc = "exited" /\ exit_status = 0
          /\ idx = Len(all_params)
          /\ {all_params[i] : i \in 1..idx} = AllNames
          /\ \A p \in AllNames : Resolved(p) /\ (p \in prompted => p \in DOMAIN returned)
          /\ fs.current = merged_model
    /\ error \in {"UserAbort", "ActionError", "ValueError"} =>
          (writes = 0 /\ exit_status = 1)

\* C6 witness: a merge with a prompted parameter has written its manifest.
C6_Witness ==
    /\ writes = 1
    /\ Cardinality(prompted) = MaxParams
    /\ fs.current # current0

\* C7: a prompted parameter is in the merged manifest exactly when the action
\* that ended its prompt returned a record, which is then its entry; a None
\* leaves the parameter out and the entries of other parameters as they are.
C7_ReturnDecidesEntry ==
    /\ [](\A p \in prompted :
            IF p \in DOMAIN returned /\ returned[p] # None
            THEN /\ p \in DOMAIN merged_model /\ merged_model[p] = returned[p]
                 /\ writes = 1 => (p \in DOMAIN fs.current /\ fs.current[p] = returned[p])
            ELSE /\ p \notin DOMAIN merged_model
                 /\ writes = 1 => p \notin DOMAIN fs.current)
    /\ [][\A p \in DOMAIN merged_model :
            p \in DOMAIN merged_model' /\ merged_model'[p] = merged_model[p]]_vars

\* C7 witness: one action returned a record and a later one returned None;
\* the written manifest holds the first parameter only.
C7_Witness ==
    /\ writes = 1
    /\ \E p, r \in DOMAIN returned :
          /\ p < r
          /\ returned[p] # None
          /\ returned[r] = None
          /\ DOMAIN fs.current = {p}

\* C8: at a prompt the keys on offer are the short-cuts whose handler is not
\* inactive in the state of the parameter, plus q; an action that is inactive
\* in that state is never run.
C8_OfferedActions ==
    pc \in {"prompt", "argument", "dispatch"} =>
        /\ state = infer_state(ancestor_param, current_param, other_param)
        /\ DOMAIN available_actions =
              {kb \in DOMAIN short_cuts :
                  state \notin handlers[short_cuts[kb]].INACTIVE_STATES} \cup {<<"q">>}
        /\ \A kb \in DOMAIN available_actions \ {<<"q">>} :
              available_actions[kb] = short_cuts[kb]
        /\ pc \in {"argument", "dispatch"} =>
              /\ action \in DOMAIN available_actions \ {<<"q">>}
              /\ state \notin handlers[available_actions[action]].INACTIVE_STATES

\* C8 witness: for a parameter we added, take-ancestor is hidden and take-ours
\* is about to run.
C8_Witness ==
    /\ pc = "dispatch"
    /\ state = "ADDED_A"
    /\ <<"t", "o">> \in DOMAIN short_cuts
    /\ <<"t", "o">> \notin DOMAIN available_actions
    /\ action = <<"t", "u">>

\* C9: every input the validator accepts is a key of the available actions:
\* after an accepted input the engine quits or finds the action, and the
\* look-up never fails.
C9_LookupNeverFails ==
    /\ error # "KeyError"
    /\ pc \in {"argument", "dispatch"} => action \in DOMAIN available_actions

\* t is the beginning of k and k goes on after it.
IsStrictPrefix(t, k) == Len(t) < Len(k) /\ SubSeq(k, 1, Len(t)) = t

\* C10: a non-empty input that is no available key is rejected with an empty
\* message exactly when it is a strict prefix of an available key, and with
\* 'This input is not an allowed action.' otherwise.
C10_PrefixIsSilent ==
    (pc = "validate" /\ fn_result # Unset
        /\ fn_args.text # <<>> /\ fn_args.text \notin fn_args.avail) =>
        IF \E k \in fn_args.avail : IsStrictPrefix(fn_args.text, k)
        THEN fn_result = SilentError
        ELSE fn_result = NotAllowedError

\* C10 witness: "av" was typed while "avg" is available, and was rejected
\* without a message.
C10_Witness ==
    /\ pc = "validate"
    /\ fn_args.text = <<"a", "v">>
    /\ <<"a", "v", "g">> \in fn_args.avail
    /\ fn_result = SilentError

\* ------------------------------------------------------------------------
\* make_short_cuts, applied on its own
\* ------------------------------------------------------------------------

\* The names and the short-cuts the plug-ins of a registry are drawn from.
PoolNames == {"average", "context", "quick", "take_ours"}

ShortCutPool == {<<"q">>, <<"c">>, <<"t", "u">>}

PoolRegistries ==
    UNION {{[n \in names |-> Handler(n, sc[n], {}, 0)] : sc \in [names -> ShortCutPool]}
              : names \in SUBSET PoolNames}

InitShortCuts ==
    /\ Idle
    /\ pc = "make_short_cuts"
    /\ \E registry \in PoolRegistries : fn_args = [handlers |-> registry]
    /\ fn_result = [called |-> FALSE, short_cuts |-> <<>>]

\* make_short_cuts(handlers)
ShortCutsCall ==
    /\ pc = "make_short_cuts"
    /\ ~fn_result.called
    /\ fn_result' = [called |-> TRUE,
                     short_cuts |-> make_short_cuts(fn_args.handlers, Reserved)]
    /\ UNCHANGED <<fs, side, pc, exit_status, error, writes, current0, environ, procVars,
                   fn_args>>

NextShortCuts == ShortCutsCall

SpecShortCuts == InitShortCuts /\ [][NextShortCuts]_vars

\* The available actions when no action is filtered out.
WithQuit(sc) == (<<"q">> :> "quit") @@ sc

\* C11: q is reserved for quit: make_short_cuts never gives the key q to a
\* plug-in (one that requests it gets a number), so q at the prompt is
\* accepted and makes the engine exit instead of running an action.
C11_QuitIsReserved ==
    fn_result.called =>
        LET sc == fn_result.short_cuts
        IN  /\ <<"q">> \notin DOMAIN sc
            /\ \A n \in DOMAIN fn_args.handlers :
                  fn_args.handlers[n].SHORT_CUT = <<"q">> =>
                      \E kb \in DOMAIN sc : IsIntKey(kb) /\ sc[kb] = n
            /\ WithQuit(sc)[<<"q">>] = "quit"
            /\ validate(DOMAIN WithQuit(sc), EmptyTrie, <<"q">>) = Accepted
            /\ LookUp(WithQuit(sc), Strip(<<"q">>)) = "exit"

\* C11 witness: two plug-ins asked for q and got the numbers 1 and 2.
C11_Witness ==
    /\ fn_result.called
    /\ \E n, m \in DOMAIN fn_args.handlers :
          /\ n # m
          /\ fn_args.handlers[n].SHORT_CUT = <<"q">>
          /\ fn_args.handlers[m].SHORT_CUT = <<"q">>
          /\ IntKey(1) \in DOMAIN fn_result.short_cuts
          /\ IntKey(2) \in DOMAIN fn_result.short_cuts

\* The place of a registered name in the alphabet.
NameRank(n) == CHOOSE i \in 1..Len(NameOrder) : NameOrder[i] = n

\* The handler gets the short-cut it asks for: it is not reserved and no
\* handler served before it asked for the same.
GetsRequest(hs, n) ==
    /\ hs[n].SHORT_CUT \notin Reserved
    /\ \A m \in DOMAIN hs :
          NameRank(m) < NameRank(n) => hs[m].SHORT_CUT # hs[n].SHORT_CUT

\* The texts a user can type to select an action.
TypedTexts == Inputs \cup ShortCutPool \cup {<<"1">>, <<"2">>, <<"3">>, <<"4">>}

\* C17: every handler is under exactly one key and no key is shared; in
\* alphabetical order a handler gets its requested short-cut when it is
\* unreserved and free, else the next number of the series, and every key is
\* a string the user can type at the prompt.
C17_EveryHandlerSelectable ==
    fn_result.called =>
        LET sc == fn_result.short_cuts
            hs == fn_args.handlers
        IN  /\ \A n \in DOMAIN hs : Cardinality({kb \in DOMAIN sc : sc[kb] = n}) = 1
            /\ Cardinality(DOMAIN sc) = Cardinality(DOMAIN hs)
            /\ \A n \in DOMAIN hs :
                  IF GetsRequest(hs, n)
                  THEN sc[hs[n].SHORT_CUT] = n
                  ELSE sc[IntKey(1 + Cardinality({m \in DOMAIN hs :
                                      NameRank(m) < NameRank(n) /\ ~GetsRequest(hs, m)}))] = n
            /\ \A kb \in DOMAIN sc : \E typed \in TypedTexts : typed = kb

\* C18: infer_state returns DELETED_B exactly when the parameter is in the
\* ancestor, current equals the ancestor entry and other has no entry.
C18_DeletedByThem ==
    (pc = "infer_state" /\ fn_result.state # Unset) =>
        ((fn_result.state = "DELETED_B") <=>
            (fn_args[1] # None /\ fn_args[2] = fn_args[1] /\ fn_args[3] = None))

\* The prompt loop of a parameter.
InPromptLoop(at) == at \in {"prompt", "argument", "dispatch"}

\* A step of the action body that returns NoResult changes nothing of the
\* merged model and asks again for the same parameter with the same actions.
NoResultAsksAgain ==
    (pc = "dispatch" /\ pc' # "exited" /\ merged_parameter' = NoResult) =>
        /\ pc' = "prompt"
        /\ merged_model' = merged_model
        /\ returned' = returned
        /\ idx' = idx
        /\ all_params' = all_params
        /\ state' = state
        /\ available_actions' = available_actions

\* Within the prompt loop the engine goes to the next parameter only when an
\* action has returned a record or None.
AdvanceOnlyOnResult ==
    (InPromptLoop(pc) /\ (idx' # idx \/ pc' = "for")) =>
        /\ pc = "dispatch"
        /\ pc' = "for"
        /\ idx' = idx + 1
        /\ merged_parameter' # NoResult

ManualSelected == environ # {} /\ environ # {<<>>}

\* C14: with the manual merge selected no prompt is issued, the three side
\* files are the smudged current, other and ancestor manifests, the current
\* path is not written and the status is 1; else the interactive merge runs.
C14_ManualMergeMode ==
    /\ (ManualSelected /\ pc # "main") =>
          /\ pc \in {"manual_merge", "exited"}
          /\ prompted = {} /\ writes = 0 /\ fs.current = current0
          /\ pc = "exited" =>
                /\ exit_status = 1
                /\ side = {[name |-> "ours.ckpt", content |-> Smudge(current0)],
                           [name |-> "theirs.ckpt", content |-> Smudge(fs.other)],
                           [name |-> "ancestor.ckpt", content |-> Smudge(fs.ancestor)]}
    /\ (~ManualSelected /\ pc # "main") =>
          /\ pc # "manual_merge"
          /\ side = {}
          /\ error # "ManualMerge"
          /\ Loaded \/ pc = "merge"

\* C14 witness: with the variable set to "0" the three side files are
\* written and the process has exited.
C14_Witness ==
    /\ environ = {<<"0">>}
    /\ pc = "exited"
    /\ Cardinality(side) = Cardinality({"ours.ckpt", "theirs.ckpt", "ancestor.ckpt"})
    /\ current0 # fs.other


\* ------------------------------------------------------------------------
\* The ia3 update (updates/ia3.py)
\* ------------------------------------------------------------------------

\* Significant bits of the model's binary floating-point numbers (float64
\* carries 53).
MantissaBits == 3

RECURSIVE GCD(_, _)
GCD(a, b) == IF b = 0 THEN a ELSE GCD(b, a % b)

\* Numbers are fractions in lowest terms; none is negative.
Rat(n, d) == <<n \div GCD(n, d), d \div GCD(n, d)>>
Zero == Rat(0, 1)
Inf == <<1, 0>>
RAdd(x, y) == Rat(x[1] * y[2] + y[1] * x[2], x[2] * y[2])
RMul(x, y) == Rat(x[1] * y[1], x[2] * y[2])
RDiv(x, y) == Rat(x[1] * y[2], x[2] * y[1])
RLeq(x, y) == x[1] * y[2] <= y[1] * x[2]
RDist(x, y) == IF RLeq(x, y) THEN Rat(y[1] * x[2] - x[1] * y[2], x[2] * y[2])
               ELSE Rat(x[1] * y[2] - y[1] * x[2], x[2] * y[2])

RECURSIVE Pow2(_)
Pow2(k) == IF k = 0 THEN 1 ELSE 2 * Pow2(k - 1)

\* The integer nearest to a / b, ties to the even one.
NearestEven(a, b) ==
    LET m == a \div b
        r == a % b
    IN  IF 2 * r > b \/ (2 * r = b /\ m % 2 = 1) THEN m + 1 ELSE m

\* The floating-point number nearest to x: MantissaBits significant bits.
RECURSIVE RoundPos(_, _)
RoundPos(a, b) ==
    IF a >= Pow2(MantissaBits) * b THEN RMul(Rat(2, 1), RoundPos(a, 2 * b))
    ELSE IF a < Pow2(MantissaBits - 1) * b THEN RMul(Rat(1, 2), RoundPos(2 * a, b))
    ELSE Rat(NearestEven(a, b), 1)

RoundNearest(x) == IF x = Zero \/ x = Inf THEN x ELSE RoundPos(x[1], x[2])

\* parameter.shape, and the axes of a parameter.
Shape == <<2, 2>>
Axes == {0, 1}
Indices(shape) == (1..shape[1]) \X (1..shape[2])
Tensor(shape, f(_)) == [shape |-> shape, data |-> [c \in Indices(shape) |-> f(c)]]
zeros(shape) == Tensor(shape, LAMBDA c : Zero)

\* The element of t that numpy's broadcasting puts at index c of a larger
\* array.
At(t, c) == t.data[<<IF t.shape[1] = 1 THEN 1 ELSE c[1],
                     IF t.shape[2] = 1 THEN 1 ELSE c[2]>>]

\* np.divide(x1, x2, out=out, where=where): the result has the shape of out;
\* where the mask is false the element of out stays.
np_divide(x1, x2, out, where) ==
    Tensor(out.shape,
           LAMBDA c : IF ~At(where, c) THEN out.data[c]
                      ELSE IF At(x2, c) = Zero THEN Inf
                      ELSE RoundNearest(RDiv(At(x1, c), At(x2, c))))

\* The divisions by zero that np.divide performs.
ZeroDivisions(x2, out, where) ==
    {c \in Indices(out.shape) : At(where, c) /\ At(x2, c) = Zero}

\* The indices of t that a sum over the axes dims folds into index c, in
\* row-major order.
RECURSIVE RowMajor(_)
RowMajor(S) ==
    IF S = {} THEN <<>>
    ELSE LET first == CHOOSE c \in S :
                         \A d \in S : c[1] < d[1] \/ (c[1] = d[1] /\ c[2] <= d[2])
         IN  <<first>> \o RowMajor(S \ {first})

Folded(t, dims, c) ==
    RowMajor({d \in Indices(t.shape) :
                 /\ (0 \notin dims => d[1] = c[1])
                 /\ (1 \notin dims => d[2] = c[2])})

KeepDims(shape, dims) ==
    <<IF 0 \in dims THEN 1 ELSE shape[1], IF 1 \in dims THEN 1 ELSE shape[2]>>

RECURSIVE FloatSum(_, _)
FloatSum(t, cells) ==
    IF cells = <<>> THEN Zero
    ELSE IF Len(cells) = 1 THEN t.data[cells[1]]
    ELSE RoundNearest(RAdd(FloatSum(t, SubSeq(cells, 1, Len(cells) - 1)),
                           t.data[cells[Len(cells)]]))

\* np.sum(t, axis=dims, keepdims=True) of a float array.
np_sum(t, dims) ==
    Tensor(KeepDims(t.shape, dims), LAMBDA c : FloatSum(t, Folded(t, dims, c)))

\* np.sum(mask, axis=dims, keepdims=True) of a boolean array: a count.
np_count(mask, dims) ==
    Tensor(KeepDims(mask.shape, dims),
           LAMBDA c : Rat(Cardinality({i \in 1..Len(Folded(mask, dims, c)) :
                                          mask.data[Folded(mask, dims, c)[i]]}), 1))

NotZero(t) == Tensor(t.shape, LAMBDA c : t.data[c] # Zero)

mask1(previous_parameter) == NotZero(previous_parameter)

multiplier(parameter, previous_parameter) ==
    np_divide(parameter, previous_parameter, zeros(parameter.shape),
              mask1(previous_parameter))

\* A count of every position of the slice.
denominator_counts_all(previous_parameter, broadcast_dims) ==
    np_count(Tensor(previous_parameter.shape, LAMBDA c : TRUE), broadcast_dims)

denominator(previous_parameter, broadcast_dims) ==
    np_count(mask1(previous_parameter), broadcast_dims)

mask2(previous_parameter, broadcast_dims) ==
    NotZero(denominator(previous_parameter, broadcast_dims))

calculate_update(parameter, previous_parameter, broadcast_dims) ==
    [ia3 |-> np_divide(np_sum(multiplier(parameter, previous_parameter),
                              broadcast_dims),
                       denominator(previous_parameter, broadcast_dims),
                       zeros(parameter.shape),
                       mask2(previous_parameter, broadcast_dims))]

\* The divisions by zero of one call of calculate_update.
calculate_update_zero_divisions(parameter, previous_parameter, broadcast_dims) ==
    ZeroDivisions(previous_parameter, zeros(parameter.shape),
                  mask1(previous_parameter))
    \cup ZeroDivisions(denominator(previous_parameter, broadcast_dims),
                       zeros(parameter.shape),
                       mask2(previous_parameter, broadcast_dims))

\* An update that is added to the previous value.
apply_update_adds(update, previous) ==
    Tensor(previous.shape,
           LAMBDA c : RoundNearest(RAdd(previous.data[c], At(update.ia3, c))))

\* previous * update["ia3"]
apply_update(update, previous) ==
    Tensor(previous.shape,
           LAMBDA c : RoundNearest(RMul(previous.data[c], At(update.ia3, c))))

\* The element values the tensors are drawn from: 0 and numbers of two and
\* of three significant bits.
ElementValues == {Rat(0, 1), Rat(3, 1), Rat(7, 1)}
Tensors == {[shape |-> Shape, data |-> f] : f \in [Indices(Shape) -> ElementValues]}
BroadcastDims == SUBSET Axes

Matrix(a, b, c, d) ==
    [shape |-> Shape,
     data |-> (<<1, 1>> :> Rat(a, 1)) @@ (<<1, 2>> :> Rat(b, 1))
              @@ (<<2, 1>> :> Rat(c, 1)) @@ (<<2, 2>> :> Rat(d, 1))]

\* Scenario S3: every element doubled, broadcast_dims = [1].
ScenarioS3 ==
    [parameter |-> Matrix(4, 8, 12, 16), previous_parameter |-> Matrix(2, 4, 6, 8),
     broadcast_dims |-> {1}]

InitIA3 ==
    /\ Idle
    /\ pc = "calculate_update"
    /\ \/ \E n \in Tensors, p \in Tensors, dims \in BroadcastDims :
             fn_args = [parameter |-> n, previous_parameter |-> p,
                        broadcast_dims |-> dims]
       \/ fn_args = ScenarioS3
    /\ fn_result = [called |-> FALSE, update |-> [ia3 |-> zeros(Shape)],
                    applied |-> zeros(Shape), zero_divisions |-> {}]

\* calculate_update(parameter, previous_parameter, broadcast_dims), then
\* apply_update of its result to previous_parameter.
IA3Call ==
    /\ pc = "calculate_update"
    /\ ~fn_result.called
    /\ LET update == calculate_update(fn_args.parameter, fn_args.previous_parameter,
                                      fn_args.broadcast_dims)
       IN  fn_result' =
               [called |-> TRUE,
                update |-> update,
                applied |-> apply_update(update, fn_args.previous_parameter),
                zero_divisions |->
                    calculate_update_zero_divisions(fn_args.parameter,
                                                    fn_args.previous_parameter,
                                                    fn_args.broadcast_dims)]
    /\ UNCHANGED <<fs, side, pc, exit_status, error, writes, current0, environ,
                   procVars, fn_args>>

NextIA3 == IA3Call

SpecIA3 == InitIA3 /\ [][NextIA3]_vars


\* The call of calculate_update has returned.
IA3Returned == pc = "calculate_update" /\ fn_result.called

\* The positions of the broadcast slice of position c, in row-major order.
SliceOf(c) == Folded(fn_args.previous_parameter, fn_args.broadcast_dims, c)

\* new / previous at position c, as a fraction.
Quotient(c) == RDiv(fn_args.parameter.data[c], fn_args.previous_parameter.data[c])

\* previous has no zero element and new = previous * s for a multiplier s
\* that is constant along the broadcast dims.
ConstantMultiplier ==
    /\ \A c \in Indices(Shape) : fn_args.previous_parameter.data[c] # Zero
    /\ \A c \in Indices(Shape) :
          \A i \in 1..Len(SliceOf(c)) : Quotient(SliceOf(c)[i]) = Quotient(c)

Representable(c) ==
    \A k \in 1..Len(SliceOf(c)) :
        RoundNearest(RMul(Rat(k, 1), Quotient(c))) = RMul(Rat(k, 1), Quotient(c))

C13_RecordShape ==
    IA3Returned =>
        /\ fn_result.update.ia3.shape = KeepDims(Shape, fn_args.broadcast_dims)
        /\ fn_args = ScenarioS3 =>
              fn_result.update.ia3 = Tensor(<<2, 1>>, LAMBDA c : Rat(2, 1))

\* The positions of the slice of c where previous is not 0.
NonZeroOf(c) ==
    SelectSeq(SliceOf(c), LAMBDA d : fn_args.previous_parameter.data[d] # Zero)

\* The floating-point sum of the floating-point quotients new / previous
\* over a sequence of positions.
RECURSIVE QuotientSum(_)
QuotientSum(cells) ==
    IF cells = <<>> THEN Zero
    ELSE IF Len(cells) = 1 THEN RoundNearest(Quotient(cells[1]))
    ELSE RoundNearest(RAdd(QuotientSum(SubSeq(cells, 1, Len(cells) - 1)),
                           RoundNearest(Quotient(cells[Len(cells)]))))

\* C20: a position where previous is 0 gets multiplier 0 and is not counted;
\* each ia3 value is the mean of new / previous over the non-zero-previous
\* positions of its slice, 0 for a slice where previous is all 0; no
\* division by zero is performed.
C20_ZeroPreviousExcluded ==
    IA3Returned =>
        /\ fn_result.zero_divisions = {}
        /\ \A c \in Indices(Shape) :
              /\ fn_args.previous_parameter.data[c] = Zero =>
                    multiplier(fn_args.parameter, fn_args.previous_parameter).data[c] = Zero
              /\ At(denominator(fn_args.previous_parameter, fn_args.broadcast_dims), c)
                    = Rat(Len(NonZeroOf(c)), 1)
              /\ fn_result.update.ia3.data[c] =
                    IF NonZeroOf(c) = <<>> THEN Zero
                    ELSE RoundNearest(RDiv(QuotientSum(NonZeroOf(c)),
                                           Rat(Len(NonZeroOf(c)), 1)))

\* C20 witness: with broadcast_dims = [1], a row where previous is (0, 3) and
\* new is (7, 3) has ia3 value 1, and a row where previous is all 0 has 0.
C20_Witness ==
    /\ IA3Returned
    /\ fn_args.broadcast_dims = {1}
    /\ fn_args.previous_parameter = Matrix(0, 3, 0, 0)
    /\ fn_args.parameter = Matrix(7, 3, 7, 7)
    /\ fn_result.update.ia3.data[<<1, 1>>] = Rat(1, 1)
    /\ fn_result.update.ia3.data[<<2, 1>>] = Zero


\* ------------------------------------------------------------------------
\* git_lfs_push_oids (git_utils.py)
\* ------------------------------------------------------------------------

\* The longest batch of object ids.
MaxOids == 2

OidValues == {<<"a", "1">>, <<"b", "2">>, <<"c", "3">>}
OidBatches == UNION {[1..n -> OidValues] : n \in 0..MaxOids}
RemoteNames == {<<"o", "r">>, <<"u", ".", "p">>}

\* The exit codes of the helper process.
ReturnCodes == {0, 1, 2, 128}

\* re.escape: a backslash before every character that is special in a
\* regular expression.
RECURSIVE re_escape(_)
re_escape(s) ==
    IF s = <<>> THEN <<>>
    ELSE (IF Head(s) \in {".", "-", "*", "+", "?", "\\"} THEN <<"\\", Head(s)>>
          ELSE <<Head(s)>>) \o re_escape(Tail(s))

PushCommand(remote_name, oids) ==
    <<<<"g", "i", "t">>, <<"l", "f", "s">>, <<"p", "u", "s", "h">>,
      <<"-", "-", "o", "b", "j", "e", "c", "t", "-", "i", "d">>,
      re_escape(remote_name)>> \o oids

\* A push that reports success whatever the helper returned.
git_lfs_push_oids_always_zero(remote_name, oids, returncode) ==
    IF oids # <<>> THEN [launches |-> <<PushCommand(remote_name, oids)>>, result |-> 0]
    ELSE [launches |-> <<>>, result |-> 0]

\* git_lfs_push_oids(remote_name, oids); returncode is the exit code of the
\* process that async_utils.subprocess_run starts.
git_lfs_push_oids(remote_name, oids, returncode) ==
    IF oids # <<>> THEN [launches |-> <<PushCommand(remote_name, oids)>>,
                         result |-> returncode]
    ELSE [launches |-> <<>>, result |-> 0]

InitPush ==
    /\ Idle
    /\ pc = "git_lfs_push_oids"
    /\ \E name \in RemoteNames, batch \in OidBatches :
          fn_args = [remote_name |-> name, oids |-> batch]
    /\ fn_result = [called |-> FALSE, returncode |-> 0, launches |-> <<>>, result |-> 0]

PushCall ==
    /\ pc = "git_lfs_push_oids"
    /\ ~fn_result.called
    /\ \E code \in ReturnCodes :
          LET out == git_lfs_push_oids(fn_args.remote_name, fn_args.oids, code)
          IN  fn_result' = [called |-> TRUE,
                            returncode |-> IF out.launches = <<>> THEN 0 ELSE code,
                            launches |-> out.launches,
                            result |-> out.result]
    /\ UNCHANGED <<fs, side, pc, exit_status, error, writes, current0, environ,
                   procVars, fn_args>>

NextPush == PushCall

SpecPush == InitPush /\ [][NextPush]_vars

\* C16: for a batch that is not empty the helper is launched exactly once
\* with the whole batch and its exit code is the result, so a failure of
\* the helper is a non-zero result; for an empty batch nothing is launched
\* and the result is 0.
C16_PushStatusSurfaces ==
    (pc = "git_lfs_push_oids" /\ fn_result.called) =>
        IF fn_args.oids # <<>>
        THEN /\ Len(fn_result.launches) = 1
             /\ SubSeq(fn_result.launches[1], Len(fn_result.launches[1])
                           - Len(fn_args.oids) + 1, Len(fn_result.launches[1]))
                    = fn_args.oids
             /\ Len(fn_result.launches[1]) = Len(fn_args.oids) + 5
             /\ fn_result.result = fn_result.returncode
             /\ fn_result.returncode # 0 => fn_result.result # 0
        ELSE fn_result.launches = <<>> /\ fn_result.result = 0

\* C16 witness: a push of two object ids whose helper failed with 128.
C16_Witness ==
    /\ pc = "git_lfs_push_oids"
    /\ fn_result.called
    /\ Len(fn_args.oids) = 2
    /\ fn_result.returncode = 128
    /\ fn_result.result = 128
    /\ Len(fn_result.launches) = 1


\* ------------------------------------------------------------------------
\* add_theta_to_gitattributes (git_utils.py)
\* ------------------------------------------------------------------------

\* The longest gitattributes file, in lines.
MaxLines == 2

\* Text is a sequence of characters.
FilterTheta == <<"f", "i", "l", "t", "e", "r", "=", "t", "h", "e", "t", "a">>
MergeTheta == <<"m", "e", "r", "g", "e", "=", "t", "h", "e", "t", "a">>
DiffTheta == <<"d", "i", "f", "f", "=", "t", "h", "e", "t", "a">>

\* re.match(r"^\s*(?P<pattern>[^\s]+)\s+(?P<attributes>.*)$", line): the
\* pattern is the first run of non-space characters, it must be followed by
\* white space, and the attributes are what follows that white space.
RECURSIVE FirstWord(_)
FirstWord(s) == IF s = <<>> \/ Head(s) = " " THEN <<>> ELSE <<Head(s)>> \o FirstWord(Tail(s))

AfterFirstWord(s) == SubSeq(s, Len(FirstWord(s)) + 1, Len(s))

match(line) ==
    LET rest == AfterFirstWord(LStrip(line))
    IN  IF FirstWord(LStrip(line)) = <<>> \/ rest = <<>>
        THEN [matched |-> FALSE, pattern |-> <<>>, attributes |-> <<>>]
        ELSE [matched |-> TRUE, pattern |-> FirstWord(LStrip(line)),
              attributes |-> LStrip(rest)]

\* The index of the "]" that closes the character class pat begins with, 0
\* if there is none.
ClassEnd(pat) ==
    IF \E k \in 3..Len(pat) : pat[k] = "]"
    THEN CHOOSE k \in 3..Len(pat) : pat[k] = "]" /\ \A j \in 3..(k - 1) : pat[j] # "]"
    ELSE 0

\* fnmatch.fnmatchcase(name, pat) for patterns of literals, "*", "?" and
\* character classes that list their members.
RECURSIVE fnmatchcase(_, _)
fnmatchcase(name, pat) ==
    IF pat = <<>> THEN name = <<>>
    ELSE IF Head(pat) = "*"
         THEN fnmatchcase(name, Tail(pat))
              \/ (name # <<>> /\ fnmatchcase(Tail(name), pat))
    ELSE IF name = <<>> THEN FALSE
    ELSE IF Head(pat) = "?" THEN fnmatchcase(Tail(name), Tail(pat))
    ELSE IF Head(pat) = "[" /\ ClassEnd(pat) > 0
         THEN /\ Head(name) \in {pat[k] : k \in 2..(ClassEnd(pat) - 1)}
              /\ fnmatchcase(Tail(name), SubSeq(pat, ClassEnd(pat) + 1, Len(pat)))
    ELSE Head(name) = Head(pat) /\ fnmatchcase(Tail(name), Tail(pat))

\* sub in text
Contains(text, sub) ==
    \E i \in 0..(Len(text) - Len(sub)) : SubSeq(text, i + 1, i + Len(sub)) = sub

\* f"{line.rstrip()} {attribute}" unless the attribute is in the attributes.
WithAttribute(line, attributes, attribute) ==
    IF Contains(attributes, attribute) THEN line
    ELSE RStrip(line) \o <<" ">> \o attribute

\* The body of `if fnmatch.fnmatchcase(...)`: the three attributes are added
\* where they are missing; the tests look at the attributes as matched.
ExtendLine(line) ==
    WithAttribute(WithAttribute(WithAttribute(line, match(line).attributes, FilterTheta),
                                match(line).attributes, MergeTheta),
                  match(line).attributes, DiffTheta)

Covering(line, path) == match(line).matched /\ fnmatchcase(path, match(line).pattern)

\* No line is added for a path that no pattern covers.
add_theta_to_gitattributes_no_new_line(gitattributes, path) ==
    [i \in 1..Len(gitattributes) |->
        IF Covering(gitattributes[i], path) THEN ExtendLine(gitattributes[i])
        ELSE gitattributes[i]]

add_theta_to_gitattributes(gitattributes, path) ==
    LET new_gitattributes ==
            [i \in 1..Len(gitattributes) |->
                IF Covering(gitattributes[i], path) THEN ExtendLine(gitattributes[i])
                ELSE gitattributes[i]]
        pattern_found == \E i \in 1..Len(gitattributes) : Covering(gitattributes[i], path)
    IN  IF pattern_found THEN new_gitattributes
        ELSE Append(new_gitattributes,
                    path \o <<" ">> \o FilterTheta \o <<" ">> \o MergeTheta
                         \o <<" ">> \o DiffTheta)

\* Lines of a gitattributes file.
LinePool ==
    {<<"*", ".", "p", "t", " ", "f", "i", "l", "t", "e", "r", "=", "t", "h", "e", "t", "a", " ", "m", "e", "r", "g", "e", "=", "t", "h", "e", "t", "a", " ", "d", "i", "f", "f", "=", "t", "h", "e", "t", "a">>,
     <<"*", ".", "p", "t", " ", "f", "i", "l", "t", "e", "r", "=", "l", "f", "s">>,
     <<"*", ".", "p", "t", " ", "f", "i", "l", "t", "e", "r", "=", "t", "h", "e", "t", "a", "2", " ", "m", "e", "r", "g", "e", "=", "t", "h", "e", "t", "a", " ", "d", "i", "f", "f", "=", "t", "h", "e", "t", "a">>,
     <<"*", ".", "b", "i", "n", " ", "f", "i", "l", "t", "e", "r", "=", "l", "f", "s">>,
     <<"*", ".", "p", "t">>,
     <<"m", ".", "p", "t", " ", "m", "e", "r", "g", "e", "=", "t", "h", "e", "t", "a", " ", " ">>,
     <<>>,
     <<" ", "m", "[", "1", "]", ".", "p", "t", " ", "d", "i", "f", "f", "=", "t", "h", "e", "t", "a">>}

\* Paths of checkpoints: a plain one, one with a space, one with brackets.
PathPool ==
    {<<"m", ".", "p", "t">>,
     <<"a", " ", "b", ".", "p", "t">>,
     <<"m", "[", "1", "]", ".", "p", "t">>}

GitAttributes == UNION {[1..n -> LinePool] : n \in 0..MaxLines}

InitAttrs ==
    /\ Idle
    /\ pc = "add_theta_to_gitattributes"
    /\ \E lines \in GitAttributes, path \in PathPool :
          fn_args = [gitattributes |-> lines, path |-> path]
    /\ fn_result = [called |-> FALSE, lines |-> <<>>, again |-> <<>>]

\* add_theta_to_gitattributes(gitattributes, path), and the same call on
\* its result.
AttrsCall ==
    /\ pc = "add_theta_to_gitattributes"
    /\ ~fn_result.called
    /\ LET lines == add_theta_to_gitattributes(fn_args.gitattributes, fn_args.path)
       IN  fn_result' = [called |-> TRUE, lines |-> lines,
                         again |-> add_theta_to_gitattributes(lines, fn_args.path)]
    /\ UNCHANGED <<fs, side, pc, exit_status, error, writes, current0, environ,
                   procVars, fn_args>>

NextAttrs == AttrsCall

SpecAttrs == InitAttrs /\ [][NextAttrs]_vars

\* The attributes of a line: the words after its pattern.
RECURSIVE Words(_)
Words(s) ==
    IF LStrip(s) = <<>> THEN {}
    ELSE {FirstWord(LStrip(s))} \cup Words(AfterFirstWord(LStrip(s)))

\* The line has a pattern that covers the path and carries the three
\* attributes.
Tracks(line, path) ==
    /\ Covering(line, path)
    /\ {FilterTheta, MergeTheta, DiffTheta} \subseteq Words(match(line).attributes)

\* C15: the result of add_theta_to_gitattributes(lines, path) has a line
\* whose pattern covers the path and that carries filter=theta, merge=theta
\* and diff=theta.
C15_PathIsTracked ==
    (pc = "add_theta_to_gitattributes" /\ fn_result.called) =>
        \E i \in 1..Len(fn_result.lines) : Tracks(fn_result.lines[i], fn_args.path)


\* The call of add_theta_to_gitattributes has returned.
AttrsReturned == pc = "add_theta_to_gitattributes" /\ fn_result.called

\* C21: add_theta_to_gitattributes applied to its own result, with the same
\* path, returns that result: no second line and no repeated attribute.
C21_Idempotent ==
    AttrsReturned => fn_result.again = fn_result.lines

IsPrefix(s, t) == Len(s) <= Len(t) /\ SubSeq(t, 1, Len(s)) = s

\* The lines that are no 'pattern attributes' or whose pattern does not
\* cover the path are returned as they are, where they were.
OtherLinesKept ==
    \A i \in 1..Len(fn_args.gitattributes) :
        ~Covering(fn_args.gitattributes[i], fn_args.path) =>
            fn_result.lines[i] = fn_args.gitattributes[i]

\* As many lines as before when a line covered the path, one more otherwise.
LineCount ==
    Len(fn_result.lines) =
        IF \E i \in 1..Len(fn_args.gitattributes) :
              Covering(fn_args.gitattributes[i], fn_args.path)
        THEN Len(fn_args.gitattributes)
        ELSE Len(fn_args.gitattributes) + 1

\* C22 as stated: the other lines are returned unchanged at their position,
\* a covering line is a prefix of the line returned for it, and the result
\* has len(lines) lines when a line covered the path, len(lines) + 1 if not.
C22_ExistingTextIsPrefix ==
    AttrsReturned =>
        /\ OtherLinesKept
        /\ LineCount
        /\ \A i \in 1..Len(fn_args.gitattributes) :
              Covering(fn_args.gitattributes[i], fn_args.path) =>
                  IsPrefix(fn_args.gitattributes[i], fn_result.lines[i])

\* The attributes, of the three, that the text of the line does not hold,
\* each after one space.
RECURSIVE Missing(_, _)
Missing(attributes, wanted) ==
    IF wanted = <<>> THEN <<>>
    ELSE (IF Contains(attributes, Head(wanted)) THEN <<>> ELSE <<" ">> \o Head(wanted))
         \o Missing(attributes, Tail(wanted))

\* C22 amended: a covering line that lacks none of the three attributes is
\* returned unchanged; one that lacks some is returned without its trailing
\* white space, followed by the missing attributes in the order filter,
\* merge, diff.
C22_ExtendedAfterRStrip ==
    AttrsReturned =>
        /\ OtherLinesKept
        /\ LineCount
        /\ \A i \in 1..Len(fn_args.gitattributes) :
              Covering(fn_args.gitattributes[i], fn_args.path) =>
                  LET line == fn_args.gitattributes[i]
                      missing == Missing(match(line).attributes,
                                         <<FilterTheta, MergeTheta, DiffTheta>>)
                  IN  fn_result.lines[i] =
                          IF missing = <<>> THEN line ELSE RStrip(line) \o missing

\* C22 witness: of two lines the first does not cover the path and is kept,
\* the second covers it, ends in white space and has been extended.
C22_Witness ==
    /\ AttrsReturned
    /\ Len(fn_args.gitattributes) = 2
    /\ ~Covering(fn_args.gitattributes[1], fn_args.path)
    /\ fn_result.lines[1] = fn_args.gitattributes[1]
    /\ Covering(fn_args.gitattributes[2], fn_args.path)
    /\ RStrip(fn_args.gitattributes[2]) # fn_args.gitattributes[2]
    /\ fn_result.lines[2] # fn_args.gitattributes[2]
    /\ Len(fn_result.lines) = 2


\* ------------------------------------------------------------------------
\* flatten and unflatten (utils.py)
\* ------------------------------------------------------------------------

\* The deepest nesting of a dictionary and the most items of a flat one.
MaxDepth == 2
MaxItems == 2

\* A value is a leaf or a dictionary; a dictionary iterates in key order.
KeyOrder == <<"a", "b">>
Keys == {KeyOrder[i] : i \in 1..Len(KeyOrder)}
LeafValues == {"h1", "h2"}
Leaf(v) == [leaf |-> v]
Dict(f) == [items |-> f]
IsDict(node) == "items" \in DOMAIN node
IndexError == [error |-> "IndexError"]
TypeError == [error |-> "TypeError"]
AttributeError == [error |-> "AttributeError"]
Raised(x) == "error" \in DOMAIN x

RECURSIVE NestedDicts(_)
NestedDicts(depth) ==
    IF depth = 0 THEN {}
    ELSE {Dict(f) : f \in UNION {[S -> {Leaf(v) : v \in LeafValues}
                                       \cup NestedDicts(depth - 1)] :
                                 S \in SUBSET Keys}}

\* A flatten that keys a leaf by its last key only.
RECURSIVE flatten_from_last_key_only(_, _, _)
flatten_from_last_key_only(d, prefix, i) ==
    IF i > Len(KeyOrder) THEN <<>>
    ELSE LET k == KeyOrder[i]
         IN  (IF k \notin DOMAIN d.items THEN <<>>
              ELSE IF IsDict(d.items[k])
                   THEN flatten_from_last_key_only(d.items[k], prefix, 1)
              ELSE <<<<prefix \o <<k>>, d.items[k].leaf>>>>)
             \o flatten_from_last_key_only(d, prefix, i + 1)

\* _flatten(d, prefix), from the i-th key of d on: the items of the flat
\* dictionary in the order they are inserted.
RECURSIVE flatten_from(_, _, _)
flatten_from(d, prefix, i) ==
    IF i > Len(KeyOrder) THEN <<>>
    ELSE LET k == KeyOrder[i]
         IN  (IF k \notin DOMAIN d.items THEN <<>>
              ELSE IF IsDict(d.items[k])
                   THEN flatten_from(d.items[k], prefix \o <<k>>, 1)
              ELSE <<<<prefix \o <<k>>, d.items[k].leaf>>>>)
             \o flatten_from(d, prefix, i + 1)

flatten(d) == flatten_from(d, <<>>, 1)

\* One pass of the loop of unflatten: the walk along ks[:-1] with
\* setdefault(k, {}) and the assignment curr[ks[-1]] = v.
RECURSIVE SetItem(_, _, _)
SetItem(curr, ks, v) ==
    IF ks = <<>> THEN IndexError
    ELSE IF ~IsDict(curr)
         THEN (IF Len(ks) = 1 THEN TypeError ELSE AttributeError)
    ELSE IF Len(ks) = 1 THEN Dict((ks[1] :> Leaf(v)) @@ curr.items)
    ELSE LET next == IF ks[1] \in DOMAIN curr.items THEN curr.items[ks[1]]
                     ELSE Dict(<<>>)
             below == SetItem(next, Tail(ks), v)
         IN  IF Raised(below) THEN below
             ELSE Dict((ks[1] :> below) @@ curr.items)

RECURSIVE unflatten_into(_, _)
unflatten_into(nested, items) ==
    IF items = <<>> \/ Raised(nested) THEN nested
    ELSE unflatten_into(SetItem(nested, items[1][1], items[1][2]), Tail(items))

\* unflatten(d), d given by its items in iteration order.
unflatten(items) == unflatten_into(Dict(<<>>), items)

\* The keys of flat dictionaries: tuples of keys, the empty one included.
KeyTuples == UNION {[1..n -> Keys] : n \in 0..MaxDepth}

\* Flat dictionaries: sequences of items, no key twice.
FlatDicts ==
    {f \in UNION {[1..n -> KeyTuples \X LeafValues] : n \in 0..MaxItems} :
        \A i, j \in 1..Len(f) : f[i][1] = f[j][1] => i = j}

InitFlatten ==
    /\ Idle
    /\ pc = "flatten"
    /\ \/ \E d \in NestedDicts(MaxDepth) :
             fn_args = [kind |-> "nested", nested |-> d, flat |-> <<>>]
       \/ \E f \in FlatDicts :
             fn_args = [kind |-> "flat", nested |-> Dict(<<>>), flat |-> f]
    /\ fn_result = [called |-> "no", flat |-> <<>>, nested |-> Dict(<<>>)]

\* unflatten(flatten(d))
FlattenCall ==
    /\ pc = "flatten"
    /\ fn_result.called = "no"
    /\ fn_args.kind = "nested"
    /\ fn_result' = [called |-> "flatten",
                     flat |-> flatten(fn_args.nested),
                     nested |-> unflatten(flatten(fn_args.nested))]
    /\ UNCHANGED <<fs, side, pc, exit_status, error, writes, current0, environ,
                   procVars, fn_args>>

\* flatten(unflatten(f))
UnflattenCall ==
    /\ pc = "flatten"
    /\ fn_result.called = "no"
    /\ fn_args.kind = "flat"
    /\ LET nested == unflatten(fn_args.flat)
       IN  fn_result' = [called |-> "unflatten",
                         nested |-> nested,
                         flat |-> IF Raised(nested) THEN <<>> ELSE flatten(nested)]
    /\ UNCHANGED <<fs, side, pc, exit_status, error, writes, current0, environ,
                   procVars, fn_args>>

NextFlatten == FlattenCall \/ UnflattenCall

SpecFlatten == InitFlatten /\ [][NextFlatten]_vars


\* The items of a flat dictionary, as a dictionary is compared: without
\* their order.
ItemSet(items) == {items[i] : i \in 1..Len(items)}

\* What the path ks leads to in a nested dictionary.
NoSuchPath == [absent |-> TRUE]
RECURSIVE Walk(_, _)
Walk(node, ks) ==
    IF ks = <<>> THEN node
    ELSE IF IsDict(node) /\ Head(ks) \in DOMAIN node.items
         THEN Walk(node.items[Head(ks)], Tail(ks))
    ELSE NoSuchPath

\* The leaves of a nested dictionary, each with the keys on its path.
LeavesOf(d) ==
    {<<ks, Walk(d, ks).leaf>> : ks \in {t \in KeyTuples : "leaf" \in DOMAIN Walk(d, t)}}

\* flatten maps each leaf to the tuple of keys on its path; no leaf is
\* dropped and no two share a key.
LeafPerPath ==
    fn_result.called = "flatten" =>
        /\ ItemSet(fn_result.flat) = LeavesOf(fn_args.nested)
        /\ Len(fn_result.flat) = Cardinality(LeavesOf(fn_args.nested))

\* C23 as stated: unflatten(flatten(d)) = d for every nested dictionary d,
\* flatten(unflatten(f)) = f for every flat dictionary f keyed by tuples,
\* and flatten keys each leaf by its path without dropping or merging one.
C23_InverseOnAll ==
    /\ fn_result.called = "flatten" => fn_result.nested = fn_args.nested
    /\ fn_result.called = "unflatten" =>
          /\ ~Raised(fn_result.nested)
          /\ ItemSet(fn_result.flat) = ItemSet(fn_args.flat)
    /\ LeafPerPath

\* No dictionary inside d is empty.
NoEmptyDict(d) ==
    \A ks \in KeyTuples :
        (ks # <<>> /\ IsDict(Walk(d, ks))) => Walk(d, ks).items # <<>>

\* The keys of f are paths of one nested dictionary: none is empty and none
\* is the beginning of another.
PathKeys(f) ==
    \A i \in 1..Len(f) :
        /\ f[i][1] # <<>>
        /\ \A j \in 1..Len(f) : ~IsStrictPrefix(f[i][1], f[j][1])

\* C23 amended: unflatten(flatten(d)) = d for a nested dictionary without
\* an empty dictionary inside; flatten(unflatten(f)) = f for a flat
\* dictionary whose keys are not empty and of which none is the beginning
\* of another; flatten keys each leaf by its path and drops or merges none.
C23_InverseOnPaths ==
    /\ (fn_result.called = "flatten" /\ NoEmptyDict(fn_args.nested)) =>
          fn_result.nested = fn_args.nested
    /\ (fn_result.called = "unflatten" /\ PathKeys(fn_args.flat)) =>
          /\ ~Raised(fn_result.nested)
          /\ ItemSet(fn_result.flat) = ItemSet(fn_args.flat)
    /\ LeafPerPath

\* C23 witness: a dictionary with a leaf at depth one and a leaf at depth
\* two has been flattened to two items and unflattened to itself.
C23_Witness ==
    /\ fn_result.called = "flatten"
    /\ NoEmptyDict(fn_args.nested)
    /\ fn_result.flat = <<<<<<"a">>, "h1">>, <<<<"b", "a">>, "h2">>>>
    /\ fn_result.nested = fn_args.nested

====
